---- MODULE Spec2Model ----
(***************************************************************************)
(* Model of the Enhanced Financial Projection API (src/main.py): the       *)
(* request handlers /, /health, /predict and /predict-with-goal, the one   *)
(* call of a projection request to the external generation service, the    *)
(* validation of its reply, and the /calculate-goal-requirements utility.  *)
(*                                                                         *)
(* Conventions.  Python's None is the empty sequence and a present value v *)
(* is <<v>>.  Text (messages, the prompt) is a sequence of pieces; file    *)
(* names are sequences of one-character strings so that lower() and        *)
(* endswith() are computed.  Money is in whole dollars and quality scores  *)
(* are in tenths.  The floats of /calculate-goal-requirements are doubles, *)
(* and its rounded results are exact hundredths.                           *)
(***************************************************************************)
EXTENDS Integers, Sequences, FiniteSets, TLC

None == << >>
Some(v) == <<v>>
IsNone(o) == o = << >>
Abs(x) == IF x < 0 THEN -x ELSE x

(***************************************************************************)
(* Bounds of the model.                                                    *)
(***************************************************************************)
\* requests handled side by side are drawn from 1..NumRequests
NumRequests == 2
\* revenues of /calculate-goal-requirements range over -MaxRevenue..MaxRevenue
MaxRevenue == 3
\* timeframe_years of /calculate-goal-requirements ranges over -1..MaxYears
MaxYears == 3

(***************************************************************************)
(* Arithmetic for the floats of lines 481-495.  Naturals of any size are   *)
(* little-endian sequences of base-10000 digits without leading zeros,     *)
(* zero being the empty sequence.  An operation computes its digits        *)
(* position by position and then carries; the digits are written           *)
(* << >> \o [k \in 1..n |-> ...], a sequence whose elements are computed   *)
(* once.                                                                   *)
(***************************************************************************)
RECURSIVE BigOf(_)
BigOf(n) == IF n = 0 THEN << >> ELSE <<n % 10000>> \o BigOf(n \div 10000)

\* every position keeps its digit and takes the carry of the one below
Carry(raw) ==
    << >> \o [k \in 1..(Len(raw) + 1) |->
                (IF k <= Len(raw) THEN raw[k] % 10000 ELSE 0)
                + (IF k > 1 THEN raw[k - 1] \div 10000 ELSE 0)]

RECURSIVE BigCarry(_)
BigCarry(raw) ==
    IF \A k \in 1..Len(raw) : raw[k] >= 0 /\ raw[k] < 10000 THEN raw
    ELSE BigCarry(Carry(raw))

RECURSIVE BigTrim(_)
BigTrim(a) ==
    IF a # << >> /\ a[Len(a)] = 0 THEN BigTrim(SubSeq(a, 1, Len(a) - 1)) ELSE a

BigNorm(raw) == BigTrim(BigCarry(raw))

BigAdd(a, b) ==
    BigNorm(<< >> \o [k \in 1..(IF Len(a) > Len(b) THEN Len(a) ELSE Len(b)) |->
                         (IF k <= Len(a) THEN a[k] ELSE 0)
                         + (IF k <= Len(b) THEN b[k] ELSE 0)])

\* a - b for a >= b
BigSub(a, b) ==
    BigNorm(<< >> \o [k \in 1..Len(a) |-> a[k] - (IF k <= Len(b) THEN b[k] ELSE 0)])

\* the sum of a[k - i + 1] * b[i] over i in 1..j
RECURSIVE DigitSum(_, _, _, _)
DigitSum(a, b, k, j) ==
    IF j = 0 THEN 0
    ELSE (IF k - j + 1 >= 1 /\ k - j + 1 <= Len(a) THEN a[k - j + 1] * b[j] ELSE 0)
         + DigitSum(a, b, k, j - 1)

\* a * b for b of at most 20 digits, so that a position's sum is an integer
BigTimesShort(a, b) ==
    IF a = << >> \/ b = << >> THEN << >>
    ELSE BigNorm(<< >> \o [k \in 1..(Len(a) + Len(b) - 1) |-> DigitSum(a, b, k, Len(b))])

BigShift20(a) == IF a = << >> THEN << >> ELSE [j \in 1..20 |-> 0] \o a

RECURSIVE BigTimes(_, _)
BigTimes(a, b) ==
    IF Len(b) <= 20 THEN BigTimesShort(a, b)
    ELSE BigAdd(BigTimesShort(a, SubSeq(b, 1, 20)),
                BigShift20(BigTimes(a, SubSeq(b, 21, Len(b)))))

BigMul(a, m) == BigTimes(a, BigOf(m))

\* a^n by squaring
RECURSIVE BigPower(_, _)
BigPower(a, n) ==
    IF n = 0 THEN <<1>>
    ELSE LET h == BigPower(a, n \div 2)
         IN  IF n % 2 = 0 THEN BigTimes(h, h) ELSE BigTimes(BigTimes(h, h), a)

Pow2(k) == BigPower(<<2>>, k)

BigLess(a, b) ==
    IF Len(a) # Len(b) THEN Len(a) < Len(b)
    ELSE \E i \in 1..Len(a) :
           a[i] < b[i] /\ \A j \in (i + 1)..Len(a) : a[j] = b[j]

\* the value of a set of one element, written {F(v) : v \in {e}} where e is
\* to be computed once, before F takes it
Only(S) == CHOOSE x \in S : TRUE

\* a * 10000^i
BigShift(a, i) == IF a = << >> THEN << >> ELSE [j \in 1..i |-> 0] \o a

(***************************************************************************)
(* Long division.  The divisor b has its highest digit at least 5000, and  *)
(* rest is below b * 10000^(i+1): the digit d of the quotient at 10000^i   *)
(* is then at most the two digits of rest over the highest digit of b,     *)
(* and at least that less 2 (Knuth, The Art of Computer Programming,       *)
(* 4.3.1, theorems A and B).                                               *)
(***************************************************************************)
DigitAbove(rest, b, i) ==
    ((IF Len(rest) > i + Len(b) THEN 10000 * rest[i + Len(b) + 1] ELSE 0)
     + (IF Len(rest) >= i + Len(b) THEN rest[i + Len(b)] ELSE 0)) \div b[Len(b)]

\* the largest d in lo..hi with d * b * 10000^i <= rest
RECURSIVE QuotientDigit(_, _, _, _, _)
QuotientDigit(rest, b, i, lo, hi) ==
    IF lo >= hi THEN lo
    ELSE LET mid == (lo + hi + 1) \div 2
         IN  IF BigLess(rest, BigShift(BigTimes(b, <<mid>>), i))
             THEN QuotientDigit(rest, b, i, lo, mid - 1)
             ELSE QuotientDigit(rest, b, i, mid, hi)

DigitNear(rest, b, i, above) ==
    QuotientDigit(rest, b, i, IF above < 2 THEN 0 ELSE IF above > 9999 THEN 9997 ELSE above - 2,
                  IF above > 9999 THEN 9999 ELSE above)

\* the digits of rest \div b at 10000^(i-1) and below, put under high
RECURSIVE Quotient(_, _, _, _)
Quotient(rest, b, i, high) ==
    IF i = 0 THEN high
    ELSE Only({Quotient(BigSub(rest, BigShift(BigTimes(b, <<d>>), i - 1)), b, i - 1,
                        <<d>> \o high) :
                 d \in {DigitNear(rest, b, i - 1, DigitAbove(rest, b, i - 1))}})

\* a \div b for a >= b, the highest digit of b at least 5000
QuotientOf(a, b) == BigTrim(Quotient(a, b, Len(a) - Len(b) + 1, << >>))

\* a \div b for b > 0: both are scaled to bring b's highest digit to 5000
BigDiv(a, b) ==
    IF BigLess(a, b) THEN << >>
    ELSE Only({QuotientOf(BigTimes(a, f), BigTimes(b, f)) :
                 f \in {<<10000 \div (b[Len(b)] + 1)>>}})

\* the digits 1..i of a \div d for a digit d, rest being what the digits
\* above i have left
RECURSIVE DigitsOver(_, _, _, _)
DigitsOver(a, d, i, rest) ==
    IF i = 0 THEN << >>
    ELSE Only({DigitsOver(a, d, i - 1, v % d) \o <<v \div d>> :
                 v \in {rest * 10000 + a[i]}})

\* a \div d for 0 < d < 10000
BigOver(a, d) == BigTrim(DigitsOver(a, d, Len(a), 0))

\* the integer of a natural below 10000
Small(a) == IF a = << >> THEN 0 ELSE a[1]

BigOdd(a) == a # << >> /\ a[1] % 2 = 1

\* a \div 2^k, thirteen halvings at a time
RECURSIVE BigHalve(_, _)
BigHalve(a, k) ==
    IF k > 13 THEN Only({BigHalve(v, k - 13) : v \in {BigOver(a, 8192)}})
    ELSE BigOver(a, Small(Pow2(k)))


(***************************************************************************)
(* A double is [negative, m, e] with the magnitude m * 2^e: m is of 53     *)
(* bits where the double is the result of a rounding, and empty for 0.0    *)
(* and -0.0.  Float(negative, N, D) is the double nearest to N/D for       *)
(* naturals N and D > 0, halves to the even mantissa: the IEEE-754 result  *)
(* of an operation whose exact result is N/D.                              *)
(***************************************************************************)
Double(negative, m, e) == [negative |-> negative, m |-> m, e |-> e]

\* N/D < 2^k
BelowPow2(N, D, k) ==
    IF k >= 0 THEN BigLess(N, BigTimes(D, Pow2(k)))
    ELSE BigLess(BigTimes(N, Pow2(-k)), D)

\* the e with 2^52 * 2^e <= N/D < 2^53 * 2^e, sought from e on: a digit more
\* in N than in D is a factor of some 2^13
RECURSIVE FloatExponent(_, _, _)
FloatExponent(N, D, e) ==
    IF BelowPow2(N, D, 52 + e) THEN FloatExponent(N, D, e - 1)
    ELSE IF ~BelowPow2(N, D, 53 + e) THEN FloatExponent(N, D, e + 1)
    ELSE e

\* num/den lies above m + 1/2, or on it with m odd
RoundsUp(num, den, m, twice) ==
    \/ BigLess(den, twice)
    \/ den = twice /\ BigOdd(m)

\* m + 1 where it is a mantissa, 2^52 with the next exponent where it is 2^53
FloatNext(negative, m, e) ==
    IF m = Pow2(53) THEN Double(negative, Pow2(52), e + 1)
    ELSE Double(negative, m, e)

FloatRound(negative, num, den, e, m) ==
    IF RoundsUp(num, den, m, BigTimes(BigSub(num, BigTimes(m, den)), <<2>>))
    THEN FloatNext(negative, BigAdd(m, <<1>>), e)
    ELSE Double(negative, m, e)

\* num/den = N/D / 2^e has its whole part m in 2^52 .. 2^53 - 1
FloatFrom(negative, num, den, e) ==
    Only({FloatRound(negative, num, den, e, m) : m \in {BigDiv(num, den)}})

FloatAt(negative, N, D, e) ==
    IF e >= 0 THEN FloatFrom(negative, N, BigTimes(D, Pow2(e)), e)
    ELSE FloatFrom(negative, BigTimes(N, Pow2(-e)), D, e)

FloatOf(negative, N, D) ==
    IF N = << >> THEN Double(negative, << >>, 0)
    ELSE Only({FloatAt(negative, N, D, e) :
                 e \in {FloatExponent(N, D, 13 * (Len(N) - Len(D)) - 52)}})

Float(negative, N, D) ==
    Only({FloatOf(negative, x[1], x[2]) : x \in {<<N, D>>}})

\* the doubles next to N/D on either side, for N/D no double itself
AroundFrom(num, den, e) ==
    Only({{Double(FALSE, m, e), FloatNext(FALSE, BigAdd(m, <<1>>), e)} :
            m \in {BigDiv(num, den)}})

AroundAt(N, D, e) ==
    IF e >= 0 THEN AroundFrom(N, BigTimes(D, Pow2(e)), e)
    ELSE AroundFrom(BigTimes(N, Pow2(-e)), D, e)

Around(N, D) ==
    Only({AroundAt(N, D, e) : e \in {FloatExponent(N, D, 13 * (Len(N) - Len(D)) - 52)}})

\* the magnitude of the double f as the fraction FloatNum(f) / FloatDen(f)
FloatNum(f) == IF f.e >= 0 THEN BigTimes(f.m, Pow2(f.e)) ELSE f.m
FloatDen(f) == IF f.e >= 0 THEN <<1>> ELSE Pow2(-f.e)

\* float(i) of an integer i, exact below 2^53
float(i) == Double(i < 0, BigOf(Abs(i)), 0)

\* a / b of two doubles, b not zero
truediv(a, b) ==
    Float(a.negative # b.negative,
          BigTimes(FloatNum(a), FloatDen(b)), BigTimes(FloatDen(a), FloatNum(b)))

(***************************************************************************)
(* Numbers to 32 decimals: the natural x stands for x / Unit.  They carry  *)
(* the logarithm and the exponential of the power; every operation cuts    *)
(* its result, so a value is some 10^-30 below the exact one.              *)
(***************************************************************************)
Unit == <<0, 0, 0, 0, 0, 0, 0, 0, 1>>

\* a \div Unit
Cut(a) == IF Len(a) < Len(Unit) THEN << >> ELSE SubSeq(a, Len(Unit), Len(a))

FixedTimes(x, y) == Cut(BigTimes(x, y))

\* A series is summed in steps on <<sum, term, i>>, until the term is cut
\* to nothing; n steps are the first half of them and then the rest.
\* atanh: the term z^i gives sum + z^i / i and the term z^(i+2)
AtanhStep(s, z2) == <<BigAdd(s[1], BigOver(s[2], s[3])), FixedTimes(s[2], z2), s[3] + 2>>

RECURSIVE AtanhSteps(_, _, _)
AtanhSteps(s, z2, n) ==
    IF s[2] = << >> THEN s
    ELSE IF n = 1 THEN AtanhStep(s, z2)
    ELSE Only({AtanhSteps(v, z2, n - n \div 2) : v \in {AtanhSteps(s, z2, n \div 2)}})

\* atanh(z) = z + z^3 / 3 + z^5 / 5 + ... for 0 <= z <= 1/3: the term is
\* below 10^-32 after 34 steps
AtanhOf(z, z2) == AtanhSteps(<<<< >>, z, 1>>, z2, 64)[1]

Atanh(z) == Only({AtanhOf(v, v2) : v \in {z}, v2 \in {FixedTimes(z, z)}})

\* ln(2) = 2 * atanh(1/3)
Ln2 == BigTimes(Atanh(BigOver(Unit, 3)), <<2>>)

\* ln(num / den) = 2 * atanh((num - den) / (num + den)) for 1 <= num/den < 2
LnNear1(num, den) ==
    Only({BigTimes(Atanh(z), <<2>>) :
            z \in {BigDiv(BigTimes(BigSub(num, den), Unit), BigAdd(num, den))}})

\* the k with 2^k <= N/D < 2^(k+1)
Log2(N, D) == FloatExponent(N, D, 13 * (Len(N) - Len(D)) - 52) + 52

\* |ln(N/D)| with N/D = 2^k * x, 1 <= x < 2: ln(x) + k * ln(2), which is
\* negative for k < 0
LnAt(N, D, k) ==
    IF k >= 0
    THEN BigAdd(LnNear1(N, BigTimes(D, Pow2(k))), BigMul(Ln2, k))
    ELSE BigSub(BigMul(Ln2, -k), LnNear1(BigTimes(N, Pow2(-k)), D))

\* exp: the term r^(i-1) / (i-1)! gives sum + term and the term r^i / i!
ExpStep(s, r) == <<BigAdd(s[1], s[2]), BigOver(FixedTimes(s[2], r), s[3]), s[3] + 1>>

RECURSIVE ExpSteps(_, _, _)
ExpSteps(s, r, n) ==
    IF s[2] = << >> THEN s
    ELSE IF n = 1 THEN ExpStep(s, r)
    ELSE Only({ExpSteps(v, r, n - n \div 2) : v \in {ExpSteps(s, r, n \div 2)}})

\* exp(r) = 1 + r + r^2 / 2 + ... for 0 <= r < ln(2): the term is below
\* 10^-32 after 30 steps
Exp(r) == Only({ExpSteps(<<<< >>, Unit, 1>>, v, 64)[1] : v \in {r}})

\* the doubles around x * 2^j
Scaled(x, j) ==
    IF j >= 0 THEN Around(BigTimes(x, Pow2(j)), Unit)
    ELSE Around(x, BigTimes(Unit, Pow2(-j)))

\* the doubles around exp(r) * 2^j
ExpDouble(r, j) == Only({Scaled(x, j) : x \in {Exp(r)}})

\* exp(y) for y = j * ln(2) + rest >= 0
ExpUp(j, rest) == ExpDouble(rest, j)

\* exp(-y) for y = j * ln(2) + rest >= 0
ExpDown(j, rest) ==
    IF rest = << >> THEN ExpDouble(<< >>, -j) ELSE ExpDouble(BigSub(Ln2, rest), -j - 1)

\* exp(y) or exp(-y) for y = j * ln(2) + rest >= 0
ExpSplit(negative, j, rest) ==
    IF negative THEN ExpDown(Small(j), rest) ELSE ExpUp(Small(j), rest)

ExpFrom(negative, y, j) ==
    Only({ExpSplit(negative, j, rest) : rest \in {BigSub(y, BigTimes(j, Ln2))}})

ExpOf(negative, y) == Only({ExpFrom(negative, y, j) : j \in {BigDiv(y, Ln2)}})

(***************************************************************************)
(* x ** y of lines 481 and 484 for doubles x and y # 0: the C library's    *)
(* pow.  A power that is a double is returned as it is: 1.0 for x = 1.0,   *)
(* x for y = 1.0, a zero for a zero (y > 0), and the root of a perfect     *)
(* power where y is 1/2, 1/4, ... or their negatives.  Any other power of  *)
(* x > 0 lies between two doubles, and the library, accurate to less than  *)
(* one unit in the last place, returns one of the two: which one is the    *)
(* library's matter, so both are possible.  A negative x has a real power  *)
(* for y = -1.0 only (y = 1.0 apart), and a complex one otherwise, which   *)
(* is no double.                                                           *)
(***************************************************************************)
IsOne(x) == ~x.negative /\ FloatNum(x) = FloatDen(x)
IsMinusOne(x) == x.negative /\ FloatNum(x) = FloatDen(x)

\* the doubles around exp(y * ln(N/D)), k being the whole part of the
\* logarithm of base 2 of N/D
PowerAt(N, D, y, k) ==
    Only({ExpOf((k < 0) # y.negative, v) :
            v \in {BigHalve(BigTimes(LnAt(N, D, k), y.m), -y.e)}})

PowerOf(N, D, y) == Only({PowerAt(N, D, y, k) : k \in {Log2(N, D)}})

\* p = (N/D)^y exactly, for y = 1/n or -1/n with n = 2^j
IsRoot(p, N, D, y, n) ==
    IF y.negative
    THEN BigTimes(BigPower(FloatNum(p), n), N) = BigTimes(BigPower(FloatDen(p), n), D)
    ELSE BigTimes(BigPower(FloatNum(p), n), D) = BigTimes(BigPower(FloatDen(p), n), N)

\* the doubles among around that are the exact power, which takes y to be
\* one over a power of two: its mantissa is then 2^52
Roots(around, N, D, y) ==
    IF y.m = Pow2(52)
    THEN {p \in around : IsRoot(p, N, D, y, Small(Pow2(-y.e - 52)))}
    ELSE {}

PowerFrom(around, N, D, y) ==
    IF Roots(around, N, D, y) # {} THEN Roots(around, N, D, y) ELSE around

\* the doubles x ** y can be
Power(x, y) ==
    IF IsOne(y) THEN {x}
    ELSE IF x.m = << >> THEN {Double(FALSE, << >>, 0)}
    ELSE IF IsOne(x) THEN {x}
    ELSE IF x.negative /\ ~IsMinusOne(y) THEN {}
    ELSE {Double(x.negative, p.m, p.e) :
            p \in Only({PowerFrom(around, FloatNum(x), FloatDen(x), y) :
                          around \in {PowerOf(FloatNum(x), FloatDen(x), y)}})}

(***************************************************************************)
(* The doubles of lines 481 and 484 and of the products of lines 493, 494. *)
(***************************************************************************)
\* p - 1
MinusOne(p) ==
    IF p.negative
    THEN Float(TRUE, BigAdd(FloatNum(p), FloatDen(p)), FloatDen(p))
    ELSE IF BigLess(FloatNum(p), FloatDen(p))
    THEN Float(TRUE, BigSub(FloatDen(p), FloatNum(p)), FloatDen(p))
    ELSE Float(FALSE, BigSub(FloatNum(p), FloatDen(p)), FloatDen(p))

\* d * 100
Times100(d) == Float(d.negative, BigTimes(FloatNum(d), <<100>>), FloatDen(d))

\* the doubles ((target / current) ** (1 / n) - 1) * 100 can be
Rate(target, current, n) ==
    {Only({Times100(d) : d \in {MinusOne(p)}}) :
        p \in Only({Power(q, truediv(float(1), float(n))) :
                      q \in {truediv(float(target), float(current))}})}

(***************************************************************************)
(* round(x, 2) of a double x: the hundredth nearest to the double's exact  *)
(* binary value, the even one where the double lies halfway, with the sign *)
(* of x.  A rounded value is [negative, hundredths], hundredths a natural  *)
(* of any size: 42.27 is [FALSE, <<4227>>] and -0.0 is [TRUE, << >>].      *)
(***************************************************************************)
Rounded(negative, hundredths) == [negative |-> negative, hundredths |-> hundredths]

\* num/den to the nearest integer, whole being its whole part
NearestFrom(num, den, whole, twice) ==
    IF BigLess(den, twice) \/ (den = twice /\ BigOdd(whole))
    THEN BigAdd(whole, <<1>>) ELSE whole

NearestAt(num, den, whole) ==
    NearestFrom(num, den, whole, BigTimes(BigSub(num, BigTimes(whole, den)), <<2>>))

Nearest(num, den) == Only({NearestAt(num, den, whole) : whole \in {BigDiv(num, den)}})

round2(x) == Rounded(x.negative, Nearest(BigTimes(FloatNum(x), <<100>>), FloatDen(x)))

(***************************************************************************)
(* calculate_goal_requirements: the arithmetic of lines 481-495.  The      *)
(* result is what the try block yields: either the exception's message or  *)
(* response_data with its three rounded values.  A value that depends on a *)
(* power is a set: the values the power's two neighbouring doubles lead    *)
(* to, one value unless a double falls on the half of a hundredth.         *)
(***************************************************************************)
\* request.target_revenue / request.current_revenue is defined
RatioDefined(current_revenue) == current_revenue # 0

\* sign of target_revenue / current_revenue: -1, 0 or 1
RatioSign(current_revenue, target_revenue) ==
    IF target_revenue = 0 THEN 0
    ELSE IF (target_revenue > 0) = (current_revenue > 0) THEN 1 ELSE -1

\* the message of the exception lines 481-495 raise, or <<>> when they raise none
GoalCalcError(current_revenue, target_revenue, timeframe_years) ==
    IF ~RatioDefined(current_revenue) THEN <<"float division by zero">>
    ELSE IF timeframe_years = 0 THEN <<"division by zero">>
    ELSE IF RatioSign(current_revenue, target_revenue) = 0 /\ timeframe_years < 0
         THEN <<"0.0 cannot be raised to a negative power">>
    ELSE IF RatioSign(current_revenue, target_revenue) < 0
         THEN <<"type complex doesn't define __round__ method">>
    ELSE << >>

\* round(required_cagr * 100, 2)
required_cagr(current_revenue, target_revenue, timeframe_years) ==
    {round2(x) : x \in Rate(target_revenue, current_revenue, timeframe_years)}

\* round(monthly_growth_rate * 100, 2)
monthly_growth_rate(current_revenue, target_revenue, timeframe_years) ==
    {round2(x) : x \in Rate(target_revenue, current_revenue, timeframe_years * 12)}

\* the multiple cut to two decimals instead of rounded
growth_multiple_Truncated(current_revenue, target_revenue) ==
    Rounded((target_revenue < 0) # (current_revenue < 0),
            BigDiv(BigMul(BigOf(Abs(target_revenue)), 100), BigOf(Abs(current_revenue))))

\* round(growth_multiple, 2)
growth_multiple(current_revenue, target_revenue) ==
    Only({round2(x) : x \in {truediv(float(target_revenue), float(current_revenue))}})

\* response_data of lines 489-498
response_data(current_revenue, target_revenue, timeframe_years) ==
    {[current_revenue |-> current_revenue,
      target_revenue |-> target_revenue,
      timeframe_years |-> timeframe_years,
      required_cagr |-> cagr,
      required_monthly_growth |-> monthly,
      growth_multiple |-> growth_multiple(current_revenue, target_revenue),
      feasibility_assessment |-> "Requires detailed analysis with historical data",
      recommendation |->
          "Use /predict endpoint with goal parameters for comprehensive analysis"] :
        cagr \in required_cagr(current_revenue, target_revenue, timeframe_years),
        monthly \in monthly_growth_rate(current_revenue, target_revenue, timeframe_years)}

(***************************************************************************)
(* File names: str.lower() and str.endswith('.csv') of lines 140 and 143.  *)
(* The characters of the model's names are ASCII.                          *)
(***************************************************************************)
Upper ==
    <<"A", "B", "C", "D", "E", "F", "G", "H", "I", "J", "K", "L", "M",
      "N", "O", "P", "Q", "R", "S", "T", "U", "V", "W", "X", "Y", "Z">>

Lower ==
    <<"a", "b", "c", "d", "e", "f", "g", "h", "i", "j", "k", "l", "m",
      "n", "o", "p", "q", "r", "s", "t", "u", "v", "w", "x", "y", "z">>

\* str.lower() of one character
LowerChar(ch) ==
    IF \E i \in 1..Len(Upper) : Upper[i] = ch
    THEN Lower[CHOOSE i \in 1..Len(Upper) : Upper[i] = ch]
    ELSE ch

lower(name) == [i \in 1..Len(name) |-> LowerChar(name[i])]

endswith(name, suffix) ==
    /\ Len(name) >= Len(suffix)
    /\ SubSeq(name, Len(name) - Len(suffix) + 1, Len(name)) = suffix

CsvSuffix == <<".", "c", "s", "v">>

\* the check with the suffix written without its dot
InvalidFileType_NoDot(filename) ==
    \/ IsNone(filename)
    \/ filename[1] = << >>
    \/ ~endswith(lower(filename[1]), <<"c", "s", "v">>)

\* not f.filename or not f.filename.lower().endswith('.csv')
InvalidFileType(filename) ==
    \/ IsNone(filename)
    \/ filename[1] = << >>
    \/ ~endswith(lower(filename[1]), CsvSuffix)

\* the names an upload can carry: None, "", r.pdf, csv, d.csv, A.Csv
Filenames ==
    {None, Some(<< >>), Some(<<"r", ".", "p", "d", "f">>), Some(<<"c", "s", "v">>),
     Some(<<"d", ".", "c", "s", "v">>), Some(<<"A", ".", "C", "s", "v">>)}

(***************************************************************************)
(* Number formatting of the f-strings: {x:,.2f} for a whole amount and     *)
(* str() of an int, as sequences of characters.                            *)
(***************************************************************************)
DigitChar(d) == <<"0", "1", "2", "3", "4", "5", "6", "7", "8", "9">>[d + 1]

RECURSIVE Digits(_)
Digits(n) == IF n < 10 THEN <<DigitChar(n)>>
             ELSE Digits(n \div 10) \o <<DigitChar(n % 10)>>

RECURSIVE Grouped(_)
Grouped(n) ==
    IF n < 1000 THEN Digits(n)
    ELSE Grouped(n \div 1000) \o <<",">>
         \o <<DigitChar((n \div 100) % 10), DigitChar((n \div 10) % 10), DigitChar(n % 10)>>

IntStr(n) == IF n < 0 THEN <<"-">> \o Digits(-n) ELSE Digits(n)

FormatMoney(x) ==
    (IF x < 0 THEN <<"-">> ELSE << >>) \o Grouped(Abs(x)) \o <<".", "0", "0">>

\* the decimal digits of n in a field of width characters, zeros in front
RECURSIVE Padded(_, _)
Padded(n, width) ==
    IF width = 0 THEN << >>
    ELSE Padded(n \div 10, width - 1) \o <<DigitChar(n % 10)>>

(***************************************************************************)
(* datetime.now() of lines 253 and 460.                                    *)
(***************************************************************************)
Datetime(year, month, day, hour, minute, second, microsecond) ==
    [year |-> year, month |-> month, day |-> day, hour |-> hour,
     minute |-> minute, second |-> second, microsecond |-> microsecond]

\* datetime.isoformat(): the microseconds are left out when they are 0
isoformat(d) ==
    Padded(d.year, 4) \o <<"-">> \o Padded(d.month, 2) \o <<"-">> \o Padded(d.day, 2)
    \o <<"T">> \o Padded(d.hour, 2) \o <<":">> \o Padded(d.minute, 2)
    \o <<":">> \o Padded(d.second, 2)
    \o (IF d.microsecond = 0 THEN << >> ELSE <<".">> \o Padded(d.microsecond, 6))

\* the instants at which a request is handled
Instants ==
    {Datetime(2026, 1, 2, 3, 4, 5, 0), Datetime(2026, 10, 30, 23, 59, 58, 120034)}

\* datetime.now().year
ClockYears == {d.year : d \in Instants}

(***************************************************************************)
(* The instruction text of lines 154-363.  The three blocks are pieces;    *)
(* the values the goal block embeds are spelled out.                       *)
(***************************************************************************)
\* Python truth of an Optional number: None and 0 are false
Truthy(opt) == ~IsNone(opt) /\ opt[1] # 0

base_prompt == <<"BASE: analysis requirements, 12/36/20/10/15 data points">>

enhanced_quality_section == <<"QUALITY: enhanced quality assurance and validation">>

goal_prompt_addition(goal_target_revenue, goal_timeframe_years, now_year) ==
    IF Truthy(goal_target_revenue)
    THEN <<"GOAL: Target Revenue: $">> \o FormatMoney(goal_target_revenue[1])
         \o <<"Timeframe: ">> \o IntStr(goal_timeframe_years) \o <<" years">>
         \o <<"Goal Achievement Date: December ">>
         \o IntStr(now_year + (IF goal_timeframe_years # 0
                               THEN goal_timeframe_years ELSE 3))
         \o <<"required CAGR to reach $">> \o FormatMoney(goal_target_revenue[1])
         \o <<"work backward from the $">> \o FormatMoney(goal_target_revenue[1])
         \o <<"GOAL: generate both original and goal-based projections">>
    ELSE << >>

full_prompt(goal_target_revenue, goal_timeframe_years, now_year) ==
    base_prompt
    \o goal_prompt_addition(goal_target_revenue, goal_timeframe_years, now_year)
    \o enhanced_quality_section

\* the goals a caller can ask for, and the years to reach them
GoalTargets == {None, Some(-5), Some(0), Some(1500)}
RequiredTargets == GoalTargets \ {None}
GoalYears == {0, 3}

(***************************************************************************)
(* The reply of the generation service.  A JSON object is a record of its  *)
(* top-level members, each reduced to what validation reads: a member is   *)
(* "missing", "null", "valid" (of the declared type, nested members        *)
(* included) or "invalid"; a score object also carries its score, a        *)
(* projection object the lengths of its lists.                             *)
(***************************************************************************)
RequiredPlainFields ==
    <<"executive_summary", "business_name", "projection_drivers_found",
      "assumptions_made", "anomalies_found", "methodology",
      "key_financial_ratios", "risk_factors", "recommendations">>

RequiredScoreFields ==
    <<"completion_score", "data_quality_score", "projection_confidence_score">>

\* QualityScores.score: ge=0.0, le=1.0, in tenths
ScoreMin == 0
ScoreMax == 10

Score(state, score) == [state |-> state, score |-> score]

Lists(state, a, b, c, d, e) ==
    [state |-> state, one_year_monthly |-> a, three_years_monthly |-> b,
     five_years_quarterly |-> c, ten_years_annual |-> d, fifteen_years_annual |-> e]

GoalLists(state, n) == [state |-> state, three_years_monthly |-> n]

\* a reply as the instruction text asks for it, without the goal section
PlainDocument ==
    [executive_summary |-> "valid", business_name |-> "valid",
     completion_score |-> Score("valid", 5),
     data_quality_score |-> Score("valid", 5),
     projection_confidence_score |-> Score("valid", 5),
     projection_drivers_found |-> "valid", assumptions_made |-> "valid",
     anomalies_found |-> "valid", methodology |-> "valid",
     projections_data |-> Lists("valid", 12, 36, 20, 10, 15),
     goal_based_projections |-> GoalLists("missing", 0),
     goal_feasibility_score |-> Score("missing", 0),
     key_financial_ratios |-> "valid", risk_factors |-> "valid",
     recommendations |-> "valid"]

\* a reply as the instruction text asks for it, with the goal section
GoalDocument ==
    [PlainDocument EXCEPT !.goal_based_projections = GoalLists("valid", 36),
                          !.goal_feasibility_score = Score("valid", 5)]

MemberStates == {"missing", "null", "valid", "invalid"}
ScoreValues == {-1, 0, 5, 10, 15}

Range(seq) == {seq[i] : i \in 1..Len(seq)}

\* the JSON objects the service may answer with: the plain document with one
\* member changed, or with any combination of the two goal members
Documents ==
    {[PlainDocument EXCEPT ![f] = st] :
        f \in Range(RequiredPlainFields), st \in MemberStates}
    \cup {[PlainDocument EXCEPT ![f] = Score("valid", v)] :
            f \in Range(RequiredScoreFields), v \in ScoreValues}
    \cup {[PlainDocument EXCEPT ![f] = Score(st, 0)] :
            f \in Range(RequiredScoreFields), st \in MemberStates \ {"valid"}}
    \cup {[PlainDocument EXCEPT !.projections_data = l] :
            l \in {Lists("missing", 0, 0, 0, 0, 0), Lists("null", 0, 0, 0, 0, 0),
                   Lists("invalid", 0, 0, 0, 0, 0), Lists("valid", 0, 0, 0, 0, 0),
                   Lists("valid", 1, 2, 1, 2, 1)}}
    \cup {[PlainDocument EXCEPT !.goal_based_projections = g,
                                !.goal_feasibility_score = fs] :
            g \in {GoalLists("missing", 0), GoalLists("null", 0),
                   GoalLists("invalid", 0), GoalLists("valid", 0),
                   GoalLists("valid", 36)},
            fs \in {Score("missing", 0), Score("null", 0), Score("invalid", 0),
                    Score("valid", -1), Score("valid", 5), Score("valid", 15)}}

\* response.text: its kind, the characters of a text given literally, the
\* members of a text that is a JSON object
Text(kind, chars, doc) == [kind |-> kind, chars |-> chars, doc |-> doc]

\* texts at which json.loads stops: the text, the complaint and the index
\* of the character it stops at
Malformed ==
    {<<"not json", "Expecting value", 0>>,
     <<"Here is the JSON: {}", "Expecting value", 0>>,
     <<"{", "Expecting property name enclosed in double quotes", 1>>,
     <<"{} {}", "Extra data", 3>>,
     <<"[1, 2", "Expecting ',' delimiter", 5>>}

\* JSON texts that are no object, with the type json.loads gives their value
Values ==
    {<<"[1, 2]", "list">>, <<"null", "NoneType">>, <<"true", "bool">>,
     <<"3", "int">>, <<"1.5", "float">>}

PlainText == Text("object", "", Some(PlainDocument))
GoalText == Text("object", "", Some(GoalDocument))
EmptyString == Text("empty", "", None)
NoText == Text("none", "", None)

Texts ==
    {NoText, EmptyString}
    \cup {Text("malformed", row[1], None) : row \in Malformed}
    \cup {Text("value", row[1], None) : row \in Values}
    \cup {Text("object", "", Some(d)) : d \in Documents}

\* response.usage_metadata: no such attribute, None, all counters, an object
\* without the counter attributes, counters that cannot be formatted with {:,}
UsageStates == {"absent", "none", "counts", "partial", "unformattable"}

\* what client.models.generate_content does: return a reply, or raise
Reply(raised, text, usage) == [raised |-> raised, text |-> text, usage |-> usage]

\* str(e) of the exceptions the call raises in the model
CallErrors == {"429 quota exceeded", "connection reset"}

\* every text with all counters, three texts with every usage state, and the
\* failures of the call
Replies ==
    {Reply(None, t, "counts") : t \in Texts}
    \cup {Reply(None, t, u) : t \in {PlainText, GoalText, EmptyString}, u \in UsageStates}
    \cup {Reply(Some(cause), NoText, "absent") : cause \in CallErrors}

(***************************************************************************)
(* State.  __name__ is the name under which src/main.py was loaded, the    *)
(* same for the life of the process.  Each request in 1..NumRequests has   *)
(* its own frame: the handler's position, its arguments, what the reads of *)
(* its files gave, what it sent to the service, the reply, the result      *)
(* delivered to the caller and the lines it logged.                        *)
(***************************************************************************)
VARIABLES __name__, pc, args, reads, sent, calls, response, outcome, log

vars == <<__name__, pc, args, reads, sent, calls, response, outcome, log>>

\* __name__ of src/main.py: "__main__" when the file is run as a script
\* (python main.py, lines 507-510), "main" when it is imported (uvicorn main:app)
ModuleNames == {"__main__", "main"}

(***************************************************************************)
(* json.loads and the construction of EnhancedProjectionSchema.            *)
(***************************************************************************)
\* str() of json.JSONDecodeError(msg, doc, pos) for a doc of one line
JSONDecodeError(msg, pos) ==
    <<msg, ": line 1 column ">> \o IntStr(pos + 1) \o <<" (char ">> \o IntStr(pos)
    \o <<")">>

\* json.loads(response.text): the exception's message, or <<>>
JsonLoadsError(text) ==
    IF text.kind = "none"
    THEN <<"the JSON object must be str, bytes or bytearray, not NoneType">>
    ELSE IF text.kind = "empty"
    THEN JSONDecodeError("Expecting value", 0)
    ELSE IF text.kind = "malformed"
    THEN Only({JSONDecodeError(row[2], row[3]) :
                 row \in {row \in Malformed : row[1] = text.chars}})
    ELSE << >>

\* EnhancedProjectionSchema(**value) with a value that is no mapping: the
\* message names the class with its module, which is __name__
UnpackError(text) ==
    IF text.kind = "value"
    THEN <<__name__,
           ".EnhancedProjectionSchema() argument after ** must be a mapping, not ">>
         \o Only({<<row[2]>> : row \in {row \in Values : row[1] = text.chars}})
    ELSE << >>

\* the score field declared without le=1.0
QualityScores_NoUpperBound(member) ==
    member.state = "valid" /\ member.score >= ScoreMin

\* QualityScores: an object whose score lies in [0.0, 1.0]
QualityScores(member) ==
    member.state = "valid" /\ member.score >= ScoreMin /\ member.score <= ScoreMax

\* Optional[...] = None: the member may be left out or null
OptionalMember(member) == member.state \in {"missing", "null"}

\* the members of doc that fail validation, in the order of the schema
FieldErrors(doc) ==
    SelectSeq(
      <<"executive_summary", "business_name", "completion_score",
        "data_quality_score", "projection_confidence_score",
        "projection_drivers_found", "assumptions_made", "anomalies_found",
        "methodology", "projections_data", "goal_based_projections",
        "goal_feasibility_score", "key_financial_ratios", "risk_factors",
        "recommendations">>,
      LAMBDA f :
        IF f \in Range(RequiredPlainFields) THEN doc[f] # "valid"
        ELSE IF f \in Range(RequiredScoreFields) THEN ~QualityScores(doc[f])
        ELSE IF f = "projections_data" THEN doc[f].state # "valid"
        ELSE IF f = "goal_based_projections"
             THEN ~(OptionalMember(doc[f]) \/ doc[f].state = "valid")
        ELSE ~(OptionalMember(doc[f]) \/ QualityScores(doc[f])))

\* the validated model: a member left out takes its default, None
EnhancedProjectionSchema(doc) ==
    [doc EXCEPT
       !.goal_based_projections =
           IF OptionalMember(@) THEN GoalLists("null", 0) ELSE @,
       !.goal_feasibility_score =
           IF OptionalMember(@) THEN Score("null", 0) ELSE @]

(***************************************************************************)
(* The frames of the requests.                                             *)
(***************************************************************************)
Requests == 1..NumRequests

Upload(filename, content) == [filename |-> filename, content |-> content]

Args(endpoint, pl, bs, goal_target_revenue, goal_timeframe_years, current_revenue, target_revenue, timeframe_years) ==
    [endpoint |-> endpoint, profit_loss_file |-> pl, balance_sheet_file |-> bs,
     goal_target_revenue |-> goal_target_revenue,
     goal_timeframe_years |-> goal_timeframe_years,
     current_revenue |-> current_revenue, target_revenue |-> target_revenue,
     timeframe_years |-> timeframe_years]

NoArgs == Args("none", Upload(None, << >>), Upload(None, << >>), None, 0, 0, 0, 0)

\* what the caller receives: a status with the error detail, the validated
\* projection, the goal calculation or the body of / and /health
Outcome(status, detail, projection, goal_calc) ==
    [status |-> status, detail |-> detail, projection |-> projection,
     goal_calc |-> goal_calc, body |-> None]

NoOutcome == Outcome(0, << >>, None, None)

HTTPException(status_code, detail) == Outcome(status_code, detail, None, None)

\* the dict a handler returns, sent with status 200
JSONResponse(body) == [Outcome(200, << >>, None, None) EXCEPT !.body = Some(body)]

\* one logged line: its level and the pieces of its message
Line(level, message) == <<level>> \o message

\* str() of a file name
NameStr(filename) == IF IsNone(filename) THEN <<"None">> ELSE filename[1]

Init ==
    /\ __name__ \in ModuleNames
    /\ pc = [r \in Requests |-> "idle"]
    /\ args = [r \in Requests |-> NoArgs]
    /\ reads = [r \in Requests |-> << >>]
    /\ sent = [r \in Requests |-> None]
    /\ calls = [r \in Requests |-> 0]
    /\ response = [r \in Requests |-> None]
    /\ outcome = [r \in Requests |-> NoOutcome]
    /\ log = [r \in Requests |-> << >>]

(***************************************************************************)
(* GET /, lines 122-125, and GET /health, lines 458-461.                   *)
(***************************************************************************)
root(r) ==
    /\ pc[r] = "idle"
    /\ args' = [args EXCEPT ![r] = [NoArgs EXCEPT !.endpoint = "/"]]
    /\ log' = [log EXCEPT ![r] = <<Line("INFO", <<"Root endpoint accessed.">>)>>]
    /\ outcome' = [outcome EXCEPT ![r] =
                     JSONResponse([message |->
                         "Enhanced Financial Projection API v2.0 is running"])]
    /\ pc' = [pc EXCEPT ![r] = "done"]
    /\ UNCHANGED <<__name__, reads, sent, calls, response>>

health_check(r, now) ==
    /\ pc[r] = "idle"
    /\ args' = [args EXCEPT ![r] = [NoArgs EXCEPT !.endpoint = "/health"]]
    /\ log' = [log EXCEPT ![r] = <<Line("INFO", <<"Health check endpoint accessed.">>)>>]
    /\ outcome' = [outcome EXCEPT ![r] =
                     JSONResponse([status |-> "healthy", timestamp |-> isoformat(now),
                                   version |-> "2.0.0"])]
    /\ pc' = [pc EXCEPT ![r] = "done"]
    /\ UNCHANGED <<__name__, reads, sent, calls, response>>

(***************************************************************************)
(* predict, lines 134-147 and 430-432: the file names are checked; a bad   *)
(* one raises the 400 that the handler logs and raises again.              *)
(***************************************************************************)
\* the HTTPException of lines 140-145, or NoOutcome when both names pass
FileTypeError(pl, bs) ==
    IF InvalidFileType(pl.filename)
    THEN HTTPException(400, <<"Profit and Loss file must be a CSV">>)
    ELSE IF InvalidFileType(bs.filename)
    THEN HTTPException(400, <<"Balance Sheet file must be a CSV">>)
    ELSE NoOutcome

\* the lines logged by lines 134-147 and 431
EntryLog(pl, bs, goal_target_revenue, goal_timeframe_years) ==
    <<Line("INFO", <<"Received request for /predict endpoint. Files: ">>
                   \o NameStr(pl.filename) \o <<", ">> \o NameStr(bs.filename))>>
    \o (IF Truthy(goal_target_revenue)
        THEN <<Line("INFO", <<"Goal-based projection requested: $">>
                            \o FormatMoney(goal_target_revenue[1]) \o <<" in ">>
                            \o IntStr(goal_timeframe_years) \o <<" years">>)>>
        ELSE << >>)
    \o (IF InvalidFileType(pl.filename)
        THEN <<Line("WARNING", <<"Invalid file type for profit_loss_file: ">>
                               \o NameStr(pl.filename))>>
        ELSE IF InvalidFileType(bs.filename)
        THEN <<Line("WARNING", <<"Invalid file type for balance_sheet_file: ">>
                               \o NameStr(bs.filename))>>
        ELSE <<Line("INFO", <<"CSV files validated successfully. Reading contents...">>)>>)
    \o (IF FileTypeError(pl, bs) # NoOutcome
        THEN <<Line("ERROR", <<"HTTP Exception occurred: ">>
                             \o FileTypeError(pl, bs).detail)>>
        ELSE << >>)

\* the body of predict up to the await of line 149, for the frame of request r
Enter(r, endpoint, prelude, pl, bs, goal_target_revenue, goal_timeframe_years) ==
    /\ args' = [args EXCEPT ![r] =
                  Args(endpoint, pl, bs, goal_target_revenue, goal_timeframe_years,
                       0, 0, 0)]
    /\ log' = [log EXCEPT ![r] =
                 prelude \o EntryLog(pl, bs, goal_target_revenue, goal_timeframe_years)]
    /\ IF FileTypeError(pl, bs) # NoOutcome
       THEN /\ pc' = [pc EXCEPT ![r] = "done"]
            /\ outcome' = [outcome EXCEPT ![r] = FileTypeError(pl, bs)]
       ELSE /\ pc' = [pc EXCEPT ![r] = "reading_profit_loss"]
            /\ UNCHANGED outcome
    /\ UNCHANGED <<__name__, reads, sent, calls, response>>

\* POST /predict
predict(r, pl, bs, goal_target_revenue, goal_timeframe_years) ==
    /\ pc[r] = "idle"
    /\ Enter(r, "/predict", << >>, pl, bs, goal_target_revenue, goal_timeframe_years)

\* POST /predict-with-goal, lines 438-456: logs and delegates to predict
predict_with_goal(r, pl, bs, target_revenue, timeframe_years) ==
    /\ pc[r] = "idle"
    /\ Enter(r, "/predict-with-goal",
             <<Line("INFO", <<"Goal-specific endpoint called. Target: $">>
                            \o FormatMoney(target_revenue) \o <<" in ">>
                            \o IntStr(timeframe_years) \o <<" years">>)>>,
             pl, bs, Some(target_revenue), timeframe_years)

(***************************************************************************)
(* predict, lines 149-392: the two awaits.  Each read gives the file's     *)
(* bytes or raises; an exception of a read is no HTTPException and ends    *)
(* the handler in lines 433-435.  After the second read the instruction    *)
(* text is put together and the one call to the service is issued.         *)
(***************************************************************************)
\* str(e) of the exceptions a read raises in the model
ReadErrors == {"I/O operation on closed file."}

\* await file.read(): the bytes, or the exception of a failure
Read(file, failure) ==
    IF IsNone(failure) THEN [raised |-> None, data |-> file.content]
    ELSE [raised |-> failure, data |-> << >>]

\* lines 433-435: the HTTPException made of an exception that is none
InternalServerError(cause) == HTTPException(500, <<"Internal server error: ">> \o cause)

\* lines 433-435 for the frame of request r
except_Exception(r, cause) ==
    /\ outcome' = [outcome EXCEPT ![r] = InternalServerError(cause)]
    /\ log' = [log EXCEPT ![r] =
                 @ \o <<Line("CRITICAL", <<"Unhandled internal server error: ">>
                                         \o cause)>>]
    /\ pc' = [pc EXCEPT ![r] = "done"]

\* line 149: the first await returns or raises
profit_loss_file_read(r, failure) ==
    /\ pc[r] = "reading_profit_loss"
    /\ reads' = [reads EXCEPT ![r] = <<Read(args[r].profit_loss_file, failure)>>]
    /\ IF IsNone(failure)
       THEN /\ pc' = [pc EXCEPT ![r] = "reading_balance_sheet"]
            /\ UNCHANGED <<outcome, log>>
       ELSE except_Exception(r, failure)
    /\ UNCHANGED <<__name__, args, sent, calls, response>>

\* lines 151-392: the handler up to the call, which is issued
generate_content(r, contents, now_year) ==
    /\ sent' = [sent EXCEPT ![r] =
                  Some([contents |-> contents,
                        prompt |-> full_prompt(args[r].goal_target_revenue,
                                               args[r].goal_timeframe_years,
                                               now_year)])]
    /\ calls' = [calls EXCEPT ![r] = @ + 1]
    /\ log' = [log EXCEPT ![r] =
                 @ \o <<Line("INFO", <<"CSV file contents read.">>),
                        Line("INFO", <<"Calling Google Generative AI API with enhanced goal-based capabilities...">>)>>]
    /\ pc' = [pc EXCEPT ![r] = "calling"]
    /\ UNCHANGED outcome

\* line 150: the second await returns, and the handler runs up to the call,
\* or raises
balance_sheet_file_read(r, failure, now_year) ==
    /\ pc[r] = "reading_balance_sheet"
    /\ reads' = [reads EXCEPT ![r] = @ \o <<Read(args[r].balance_sheet_file, failure)>>]
    /\ IF IsNone(failure)
       THEN generate_content(r, <<reads[r][1].data, args[r].balance_sheet_file.content>>,
                             now_year)
       ELSE /\ except_Exception(r, failure)
            /\ UNCHANGED <<sent, calls>>
    /\ UNCHANGED <<__name__, args, response>>

(***************************************************************************)
(* predict, lines 393-435: what the handler does with the reply.           *)
(***************************************************************************)
\* str(e) of the exception raised inside the try of lines 396-408, or <<>>:
\* a counter that is a string cannot take the format {:,}
TokenLogFailure(reply) ==
    IF reply.usage = "unformattable"
    THEN <<"Cannot specify ',' with 's'.">>
    ELSE << >>

\* the token logging written without its try
TokenLogRaised_NoExcept(reply) == TokenLogFailure(reply)

\* lines 407-408, except Exception: pass: what leaves the try of lines
\* 396-408 towards the handlers of lines 430-435, which is nothing
TokenLogRaised(reply) == << >>

\* lines 396-408: the token counts are logged, a missing counter as 0
TokenLog(a, reply) ==
    IF reply.usage \in {"counts", "partial"}
    THEN <<Line("INFO", <<"Enhanced Tokens - Input | Output | Thinking | Total">>)>>
         \o (IF Truthy(a.goal_target_revenue)
             THEN <<Line("INFO", <<"Goal-based analysis overhead - Thinking tokens">>)>>
             ELSE << >>)
    ELSE << >>

\* the test written as: response.text is None
EmptyText_NoneOnly(text) == text.kind = "none"

\* not response.text
EmptyText(text) == text.kind \in {"none", "empty"}

\* str(e) of the exception raised inside the try of lines 415-425, or <<>>
ValidationFailure(a, text) ==
    IF JsonLoadsError(text) # << >> THEN JsonLoadsError(text)
    ELSE IF UnpackError(text) # << >> THEN UnpackError(text)
    ELSE IF FieldErrors(text.doc[1]) # << >>
         THEN <<"validation errors for EnhancedProjectionSchema: ">>
              \o FieldErrors(text.doc[1])
    ELSE IF /\ EnhancedProjectionSchema(text.doc[1]).goal_based_projections.state # "null"
            /\ IsNone(a.goal_target_revenue)
         THEN <<"unsupported format string passed to NoneType.__format__">>
    ELSE << >>

\* what lines 393-435 hand to the caller
ResponseOutcome(a, reply) ==
    IF ~IsNone(reply.raised)
    THEN InternalServerError(reply.raised)
    ELSE IF TokenLogRaised(reply) # << >>
    THEN InternalServerError(TokenLogRaised(reply))
    ELSE IF EmptyText(reply.text)
    THEN HTTPException(500, <<"Empty response from AI service">>)
    ELSE IF ValidationFailure(a, reply.text) # << >>
    THEN HTTPException(500, <<"Schema validation failed: ">>
                            \o ValidationFailure(a, reply.text))
    ELSE Outcome(200, << >>, Some(EnhancedProjectionSchema(reply.text.doc[1])), None)

\* the lines logged by lines 393-435
ResponseLog(a, reply) ==
    IF ~IsNone(reply.raised)
    THEN <<Line("CRITICAL", <<"Unhandled internal server error: ">> \o reply.raised)>>
    ELSE IF TokenLogRaised(reply) # << >>
    THEN <<Line("INFO", <<"Google Generative AI API call completed.">>),
           Line("CRITICAL", <<"Unhandled internal server error: ">>
                            \o TokenLogRaised(reply))>>
    ELSE <<Line("INFO", <<"Google Generative AI API call completed.">>)>>
         \o TokenLog(a, reply)
         \o (IF EmptyText(reply.text)
             THEN <<Line("ERROR", <<"Empty response received from AI service.">>)>>
             ELSE <<Line("INFO", <<"Parsing and validating enhanced AI response...">>)>>
                  \o (IF JsonLoadsError(reply.text) = << >>
                         /\ UnpackError(reply.text) = << >>
                         /\ FieldErrors(reply.text.doc[1]) = << >>
                      THEN <<Line("INFO", <<"Enhanced AI response successfully parsed and validated.">>)>>
                      ELSE << >>)
                  \o (IF ValidationFailure(a, reply.text) # << >>
                      THEN <<Line("ERROR", <<"Schema validation failed: ">>
                                           \o ValidationFailure(a, reply.text))>>
                      ELSE IF ResponseOutcome(a, reply).projection[1]
                                 .goal_based_projections.state # "null"
                      THEN <<Line("INFO", <<"Goal-based projections generated successfully. Target: $">>
                                          \o FormatMoney(a.goal_target_revenue[1]))>>
                      ELSE << >>))
         \o (IF ResponseOutcome(a, reply).status # 200
             THEN <<Line("ERROR", <<"HTTP Exception occurred: ">>
                                  \o ResponseOutcome(a, reply).detail)>>
             ELSE << >>)

\* the handler written with the goal parameters in a module-level variable,
\* which a request that arrived meanwhile has overwritten
handle_response_SharedGoal(r, reply) ==
    /\ pc[r] = "calling"
    /\ response' = [response EXCEPT ![r] = Some(reply)]
    /\ LET others == {o \in Requests \ {r} : pc[o] # "idle"}
           a == IF others = {} THEN args[r]
                ELSE [args[r] EXCEPT !.goal_target_revenue =
                        args[CHOOSE o \in others : TRUE].goal_target_revenue]
       IN  /\ outcome' = [outcome EXCEPT ![r] = ResponseOutcome(a, reply)]
           /\ log' = [log EXCEPT ![r] = @ \o ResponseLog(a, reply)]
    /\ pc' = [pc EXCEPT ![r] = "done"]
    /\ UNCHANGED <<__name__, args, reads, sent, calls>>

\* the service answers (or fails) and the handler runs to its end
handle_response(r, reply) ==
    /\ pc[r] = "calling"
    /\ response' = [response EXCEPT ![r] = Some(reply)]
    /\ outcome' = [outcome EXCEPT ![r] = ResponseOutcome(args[r], reply)]
    /\ log' = [log EXCEPT ![r] = @ \o ResponseLog(args[r], reply)]
    /\ pc' = [pc EXCEPT ![r] = "done"]
    /\ UNCHANGED <<__name__, args, reads, sent, calls>>

(***************************************************************************)
(* POST /calculate-goal-requirements, lines 471-505.  Of the line logged   *)
(* at the end the model keeps the fixed part; the arrow of the first line  *)
(* is written ->.                                                          *)
(***************************************************************************)
Revenues == -MaxRevenue..MaxRevenue
Years == -1..MaxYears

\* response_data for every request of the model whose arithmetic raises
\* nothing: the request and the values its response_data can take
Calculations ==
    {<<x, response_data(x[1], x[2], x[3])>> :
        x \in {x \in Revenues \X Revenues \X Years :
                 GoalCalcError(x[1], x[2], x[3]) = << >>}}

\* response_data as Calculations has it
Calculated(current_revenue, target_revenue, timeframe_years) ==
    Only({row[2] : row \in {row \in Calculations :
                              row[1] = <<current_revenue, target_revenue,
                                         timeframe_years>>}})

calculate_goal_requirements(r, current_revenue, target_revenue, timeframe_years) ==
    /\ pc[r] = "idle"
    /\ args' = [args EXCEPT ![r] =
                  [NoArgs EXCEPT !.endpoint = "/calculate-goal-requirements",
                                 !.current_revenue = current_revenue,
                                 !.target_revenue = target_revenue,
                                 !.timeframe_years = timeframe_years]]
    /\ LET error == GoalCalcError(current_revenue, target_revenue, timeframe_years)
           start == Line("INFO", <<"Goal requirements calculation: $">>
                                 \o FormatMoney(current_revenue) \o <<" -> $">>
                                 \o FormatMoney(target_revenue) \o <<" in ">>
                                 \o IntStr(timeframe_years) \o <<" years">>)
       IN  IF error # << >>
           THEN /\ outcome' = [outcome EXCEPT ![r] =
                     HTTPException(500, <<"Goal calculation failed: ">> \o error)]
                /\ log' = [log EXCEPT ![r] =
                     <<start, Line("ERROR", <<"Goal calculation error: ">> \o error)>>]
           ELSE /\ \E data \in Calculated(current_revenue, target_revenue,
                                          timeframe_years) :
                     outcome' = [outcome EXCEPT ![r] =
                                   Outcome(200, << >>, None, Some(data))]
                /\ log' = [log EXCEPT ![r] =
                     <<start, Line("INFO", <<"Goal calculation completed. Required CAGR">>)>>]
    /\ pc' = [pc EXCEPT ![r] = "done"]
    /\ UNCHANGED <<__name__, reads, sent, calls, response>>

(***************************************************************************)
(* The result has gone to the caller: nothing of the request is kept.      *)
(***************************************************************************)
respond(r) ==
    /\ pc[r] = "done"
    /\ pc' = [pc EXCEPT ![r] = "idle"]
    /\ args' = [args EXCEPT ![r] = NoArgs]
    /\ reads' = [reads EXCEPT ![r] = << >>]
    /\ sent' = [sent EXCEPT ![r] = None]
    /\ calls' = [calls EXCEPT ![r] = 0]
    /\ response' = [response EXCEPT ![r] = None]
    /\ outcome' = [outcome EXCEPT ![r] = NoOutcome]
    /\ log' = [log EXCEPT ![r] = << >>]
    /\ UNCHANGED __name__

(***************************************************************************)
(* The specifications.  Requests are in flight together: a request of any  *)
(* endpoint may arrive while others are being handled, and the steps of    *)
(* the handlers interleave in every order.  The handler of /predict is a   *)
(* coroutine that yields at the reads of lines 149-150 and holds the event *)
(* loop during the call of lines 378-392; with several workers every order *)
(* is possible, and that is what is specified.                             *)
(*                                                                         *)
(* What a request is made of is drawn from the sets of its inputs.         *)
(* Request 1 draws from wide sets; the requests handled beside it go to    *)
(* every endpoint too, with one choice of inputs each.  Spec varies the    *)
(* requests and keeps the replies few; the projections beside request 1    *)
(* come through /predict-with-goal there.  ReplySpec varies the replies    *)
(* and keeps the requests few.                                             *)
(***************************************************************************)
GoodUpload == Upload(Some(<<"d", ".", "c", "s", "v">>), <<"row">>)

\* every name with one line of data, and a well-named file of zero bytes
Uploads ==
    {Upload(n, <<"row">>) : n \in Filenames}
    \cup {Upload(Some(<<"d", ".", "c", "s", "v">>), << >>)}

RaisedReply == Reply(Some("connection reset"), NoText, "absent")

\* the inputs of the requests handled beside request 1
BesideInputs ==
    [uploads |-> {GoodUpload}, goal_targets |-> {None}, targets |-> {Some(1500)},
     goal_years |-> {3}, instants |-> {Datetime(2026, 1, 2, 3, 4, 5, 0)},
     failures |-> {None}, replies |-> {Reply(None, GoalText, "counts")},
     revenues |-> {2}, years |-> {2}]

RequestInputs ==
    [r \in Requests |->
       IF r = 1
       THEN [uploads |-> Uploads, goal_targets |-> GoalTargets,
             targets |-> RequiredTargets, goal_years |-> GoalYears,
             instants |-> Instants,
             failures |-> {None} \cup {Some(e) : e \in ReadErrors},
             replies |-> {Reply(None, PlainText, "counts"),
                          Reply(None, GoalText, "counts"),
                          Reply(None, EmptyString, "counts"),
                          Reply(None, Text("malformed", "not json", None), "counts"),
                          RaisedReply},
             revenues |-> Revenues, years |-> Years]
       ELSE [BesideInputs EXCEPT !.goal_targets = {}]]

ReplyInputs ==
    [r \in Requests |->
       IF r = 1
       THEN [BesideInputs EXCEPT !.goal_targets = {None, Some(1500)},
                                 !.replies = Replies]
       ELSE BesideInputs]

Root == \E r \in Requests : root(r)

HealthCheck(inputs) == \E r \in Requests : \E now \in inputs[r].instants : health_check(r, now)

Predict(inputs) ==
    \E r \in Requests :
      \E pl \in inputs[r].uploads, bs \in inputs[r].uploads,
         t \in inputs[r].goal_targets, y \in inputs[r].goal_years :
        predict(r, pl, bs, t, y)

PredictWithGoal(inputs) ==
    \E r \in Requests :
      \E pl \in inputs[r].uploads, bs \in inputs[r].uploads,
         t \in inputs[r].targets, y \in inputs[r].goal_years :
        predict_with_goal(r, pl, bs, t[1], y)

ProfitLossFileRead(inputs) ==
    \E r \in Requests : \E failure \in inputs[r].failures : profit_loss_file_read(r, failure)

BalanceSheetFileRead(inputs) ==
    \E r \in Requests :
      \E failure \in inputs[r].failures, now \in inputs[r].instants :
        balance_sheet_file_read(r, failure, now.year)

HandleResponse(inputs) ==
    \E r \in Requests : \E reply \in inputs[r].replies : handle_response(r, reply)

CalculateGoalRequirements(inputs) ==
    \E r \in Requests :
      \E c \in inputs[r].revenues, t \in inputs[r].revenues, y \in inputs[r].years :
        calculate_goal_requirements(r, c, t, y)

Respond == \E r \in Requests : respond(r)

Step(inputs) ==
    \/ Root
    \/ HealthCheck(inputs)
    \/ Predict(inputs)
    \/ PredictWithGoal(inputs)
    \/ ProfitLossFileRead(inputs)
    \/ BalanceSheetFileRead(inputs)
    \/ HandleResponse(inputs)
    \/ CalculateGoalRequirements(inputs)
    \/ Respond

Next == Step(RequestInputs)

Spec == Init /\ [][Next]_vars

ReplyNext == Step(ReplyInputs)

ReplySpec == Init /\ [][ReplyNext]_vars

(***************************************************************************)
(* Vocabulary of the properties.                                           *)
(***************************************************************************)
IsProjection(r) == args[r].endpoint \in {"/predict", "/predict-with-goal"}
IsGoalCalc(r) == args[r].endpoint = "/calculate-goal-requirements"

\* the file names of the model that end in .csv, whatever the case
CsvNames == {Some(<<"d", ".", "c", "s", "v">>), Some(<<"A", ".", "C", "s", "v">>)}

\* the service has answered request r with a reply (it did not raise)
Answered(r) == ~IsNone(response[r]) /\ IsNone(response[r][1].raised)

\* the message of a logged line begins with prefix
Logged(r, prefix) == \E i \in 1..Len(log[r]) : log[r][i][2] = prefix

InRange(score) == score >= 0 /\ score <= 10

\* a read of request r's files has raised
ReadRaised(r) == \E i \in 1..Len(reads[r]) : ~IsNone(reads[r][i].raised)

\* a rounded value as a number of hundredths
Hundredths(x) == IF x.negative THEN -Small(x.hundredths) ELSE Small(x.hundredths)

(***************************************************************************)
(* C1.  A /predict or /predict-with-goal request in which either file's    *)
(* name is missing, empty or does not end in .csv (whatever the case) has  *)
(* ended with status 400, and the service was never called for it.         *)
(***************************************************************************)
C1_BadFileNameIs400 ==
    \A r \in Requests :
      (/\ IsProjection(r)
       /\ \/ args[r].profit_loss_file.filename \notin CsvNames
          \/ args[r].balance_sheet_file.filename \notin CsvNames)
      => /\ pc[r] = "done"
         /\ outcome[r].status = 400
         /\ calls[r] = 0
         /\ IsNone(sent[r])

\* a request whose balance sheet is named csv (no dot) has been turned down
C1_Witness ==
    \E r \in Requests :
      /\ IsProjection(r)
      /\ args[r].profit_loss_file.filename \in CsvNames
      /\ args[r].balance_sheet_file.filename = Some(<<"c", "s", "v">>)
      /\ outcome[r].status = 400
      /\ calls[r] = 0

(***************************************************************************)
(* C2.  A finished projection request either carries a validated response  *)
(* whose quality scores (the three required ones, and the feasibility      *)
(* score when present) all lie in [0.0, 1.0], or an error and no response. *)
(***************************************************************************)
C2_ScoresInRangeOrError ==
    \A r \in Requests :
      (IsProjection(r) /\ pc[r] = "done")
      => \/ /\ outcome[r].status \in {400, 500}
            /\ IsNone(outcome[r].projection)
         \/ /\ outcome[r].status = 200
            /\ ~IsNone(outcome[r].projection)
            /\ LET p == outcome[r].projection[1]
               IN  /\ \A f \in {"completion_score", "data_quality_score",
                                "projection_confidence_score"} :
                         p[f].state = "valid" /\ InRange(p[f].score)
                   /\ \/ p.goal_feasibility_score.state = "null"
                      \/ /\ p.goal_feasibility_score.state = "valid"
                         /\ InRange(p.goal_feasibility_score.score)

\* a response whose completion score is exactly 1.0 has been returned
C2_Witness ==
    \E r \in Requests :
      /\ IsProjection(r)
      /\ outcome[r].status = 200
      /\ ~IsNone(outcome[r].projection)
      /\ outcome[r].projection[1].completion_score.score = 10

(***************************************************************************)
(* C3.  Once the service has returned non-empty text, the request fails    *)
(* with the schema-violation error (status 500, detail "Schema validation  *)
(* failed: ...") exactly when the text is no JSON object or a member fails *)
(* validation; otherwise the validated response is returned.               *)
(***************************************************************************)
C3_SchemaViolationIffInvalid ==
    \A r \in Requests :
      (Answered(r) /\ response[r][1].text.kind \notin {"none", "empty"})
      => LET text == response[r][1].text
             invalid == \/ text.kind # "object"
                        \/ FieldErrors(text.doc[1]) # << >>
         IN  IF invalid
             THEN /\ outcome[r].status = 500
                  /\ Head(outcome[r].detail) = "Schema validation failed: "
             ELSE outcome[r] =
                    Outcome(200, << >>, Some(EnhancedProjectionSchema(text.doc[1])), None)

(***************************************************************************)
(* C4.  When the call completes without text (None or ""), the request     *)
(* ends with status 500 and the empty-response message, and the reply is   *)
(* neither parsed nor validated.                                           *)
(***************************************************************************)
C4_EmptyReplyIs500 ==
    \A r \in Requests :
      (Answered(r) /\ response[r][1].text.kind \in {"none", "empty"})
      => /\ outcome[r] = Outcome(500, <<"Empty response from AI service">>, None, None)
         /\ ~Logged(r, "Parsing and validating enhanced AI response...")
         /\ ~Logged(r, "Schema validation failed: ")

\* the service answered "" and the caller got the empty-response error
C4_Witness ==
    \E r \in Requests :
      /\ Answered(r)
      /\ response[r][1].text.kind = "empty"
      /\ outcome[r].status = 500
      /\ outcome[r].detail = <<"Empty response from AI service">>

(***************************************************************************)
(* C5.  A projection request in which either file has no content is turned *)
(* down with status 400 and the service is not called.                     *)
(***************************************************************************)
C5_EmptyContentIs400 ==
    \A r \in Requests :
      (/\ IsProjection(r)
       /\ \/ args[r].profit_loss_file.content = << >>
          \/ args[r].balance_sheet_file.content = << >>)
      => /\ calls[r] = 0
         /\ pc[r] = "done" => outcome[r].status = 400

(***************************************************************************)
(* C6.  A projection request with a goal target <= 0 or a timeframe <= 0   *)
(* is turned down with status 400 and the service is not called.           *)
(***************************************************************************)
C6_NonPositiveGoalIs400 ==
    \A r \in Requests :
      (/\ IsProjection(r)
       /\ \/ ~IsNone(args[r].goal_target_revenue) /\ args[r].goal_target_revenue[1] <= 0
          \/ args[r].goal_timeframe_years <= 0)
      => /\ calls[r] = 0
         /\ pc[r] = "done" => outcome[r].status = 400

(***************************************************************************)
(* C7.  The instruction text sent is the base block, the goal block and    *)
(* the closing block; the goal block is there, with the formatted target   *)
(* and the timeframe, exactly when a goal target was supplied, so always   *)
(* on /predict-with-goal.                                                  *)
(***************************************************************************)
Contains(text, part) ==
    \E i \in 0..(Len(text) - Len(part)) : SubSeq(text, i + 1, i + Len(part)) = part

C7_GoalBlockIffGoalSupplied ==
    \A r \in Requests :
      ~IsNone(sent[r])
      => LET prompt == sent[r][1].prompt
             goal == args[r].goal_target_revenue
             middle == SubSeq(prompt, Len(base_prompt) + 1,
                              Len(prompt) - Len(enhanced_quality_section))
         IN  /\ SubSeq(prompt, 1, Len(base_prompt)) = base_prompt
             /\ endswith(prompt, enhanced_quality_section)
             /\ IsNone(goal) => middle = << >>
             /\ ~IsNone(goal) =>
                  /\ Contains(middle, <<"GOAL: Target Revenue: $">> \o FormatMoney(goal[1]))
                  /\ Contains(middle, <<"Timeframe: ">>
                                      \o IntStr(args[r].goal_timeframe_years))
             /\ args[r].endpoint = "/predict-with-goal" => middle # << >>

(***************************************************************************)
(* C8.  A response returned for a request that sent no goal block has both *)
(* goal members absent: goal_based_projections and goal_feasibility_score  *)
(* are None.                                                               *)
(***************************************************************************)
C8_NoGoalNoGoalMembers ==
    \A r \in Requests :
      (/\ IsProjection(r)
       /\ outcome[r].status = 200
       /\ ~IsNone(sent[r])
       /\ sent[r][1].prompt = base_prompt \o enhanced_quality_section)
      => /\ outcome[r].projection[1].goal_based_projections.state = "null"
         /\ outcome[r].projection[1].goal_feasibility_score.state = "null"

(***************************************************************************)
(* C9.  /calculate-goal-requirements returns values only when              *)
(* current_revenue > 0 and timeframe_years > 0; with current_revenue <= 0  *)
(* or timeframe_years <= 0 it fails and returns no values.                 *)
(***************************************************************************)
C9_NonPositiveInputFails ==
    \A r \in Requests :
      (/\ IsGoalCalc(r)
       /\ pc[r] = "done"
       /\ \/ args[r].current_revenue <= 0
          \/ args[r].timeframe_years <= 0)
      => /\ outcome[r].status = 500
         /\ Head(outcome[r].detail) = "Goal calculation failed: "
         /\ IsNone(outcome[r].goal_calc)

(***************************************************************************)
(* C10.  With target_revenue = current_revenue > 0 and timeframe_years > 0 *)
(* the result is required_cagr 0.00, required_monthly_growth 0.00 and      *)
(* growth_multiple 1.00.  Every result echoes the three inputs and its     *)
(* growth_multiple is target / current to the nearest hundredth (2.00 when *)
(* the target is twice the current revenue).                               *)
(***************************************************************************)
C10_GoalCalcValues ==
    \A r \in Requests :
      (IsGoalCalc(r) /\ pc[r] = "done")
      => LET c == args[r].current_revenue
             t == args[r].target_revenue
             y == args[r].timeframe_years
         IN  /\ (c > 0 /\ t = c /\ y > 0) =>
                  /\ outcome[r].status = 200
                  /\ outcome[r].goal_calc[1].required_cagr = Rounded(FALSE, << >>)
                  /\ outcome[r].goal_calc[1].required_monthly_growth
                       = Rounded(FALSE, << >>)
                  /\ outcome[r].goal_calc[1].growth_multiple = Rounded(FALSE, <<100>>)
             /\ outcome[r].status = 200 =>
                  LET g == outcome[r].goal_calc[1]
                  IN  /\ g.current_revenue = c
                      /\ g.target_revenue = t
                      /\ g.timeframe_years = y
                      /\ 2 * Abs(100 * t - Hundredths(g.growth_multiple) * c) <= Abs(c)
                      /\ t = 2 * c => Hundredths(g.growth_multiple) = 200

\* requests with equal revenues and with the target at two thirds of the
\* current revenue, which rounds up, have been answered
C10_Witness ==
    /\ \E r \in Requests :
         /\ IsGoalCalc(r)
         /\ outcome[r].status = 200
         /\ args[r].current_revenue = 2
         /\ args[r].target_revenue = 2
         /\ args[r].timeframe_years = 2
         /\ outcome[r].goal_calc[1].growth_multiple = Rounded(FALSE, <<100>>)
    /\ \E r \in Requests :
         /\ IsGoalCalc(r)
         /\ outcome[r].status = 200
         /\ args[r].current_revenue = 3
         /\ args[r].target_revenue = 2
         /\ outcome[r].goal_calc[1].growth_multiple = Rounded(FALSE, <<67>>)

(***************************************************************************)
(* C11.  When the call to the service raises, the caller gets status 500   *)
(* with a message that does not carry the cause; the cause is in the log   *)
(* only.                                                                   *)
(***************************************************************************)
C11_CauseOnlyInLog ==
    \A r \in Requests :
      (~IsNone(response[r]) /\ ~IsNone(response[r][1].raised))
      => /\ outcome[r].status = 500
         /\ ~Contains(outcome[r].detail, response[r][1].raised)
         /\ \E i \in 1..Len(log[r]) :
              /\ log[r][i][1] = "CRITICAL"
              /\ Contains(log[r][i], response[r][1].raised)

(***************************************************************************)
(* C12.  A request issues at most one call to the service: exactly one     *)
(* when its precondition checks pass (both names end in .csv, both         *)
(* payloads were read and are non-empty, the goal parameters are           *)
(* positive), none when they fail or the request is of another endpoint,   *)
(* and no further one after the service failed, answered with nothing or   *)
(* answered with a text that does not validate.                            *)
(***************************************************************************)
PreconditionsHold(r) ==
    /\ args[r].profit_loss_file.filename \in CsvNames
    /\ args[r].balance_sheet_file.filename \in CsvNames
    /\ ~ReadRaised(r)
    /\ args[r].profit_loss_file.content # << >>
    /\ args[r].balance_sheet_file.content # << >>
    /\ IsNone(args[r].goal_target_revenue) \/ args[r].goal_target_revenue[1] > 0
    /\ args[r].goal_timeframe_years > 0

C12_OneCallIffPreconditions ==
    \A r \in Requests :
      /\ calls[r] <= 1
      /\ ~IsProjection(r) => calls[r] = 0
      /\ (IsProjection(r) /\ ~PreconditionsHold(r)) => calls[r] = 0
      /\ (IsProjection(r) /\ PreconditionsHold(r) /\ pc[r] \in {"calling", "done"})
         => calls[r] = 1
      /\ (pc[r] = "done" /\ ~IsNone(response[r]) /\ outcome[r].status = 500)
         => calls[r] = 1

(***************************************************************************)
(* C13.  Two requests with the same arguments whose replies carry the same *)
(* text, and differ at most in the usage metadata, get the same outcome.   *)
(***************************************************************************)
C13_UsageDoesNotDecide ==
    \A r1 \in Requests, r2 \in Requests :
      (/\ pc[r1] = "done" /\ pc[r2] = "done"
       /\ Answered(r1) /\ Answered(r2)
       /\ args[r1] = args[r2]
       /\ response[r1][1].text = response[r2][1].text)
      => outcome[r1] = outcome[r2]

\* the same request and the same valid text twice, once with counters that
\* cannot be formatted and once with all counters: both got the projection
C13_Witness ==
    \E r1 \in Requests, r2 \in Requests :
      /\ pc[r1] = "done" /\ pc[r2] = "done"
      /\ Answered(r1) /\ Answered(r2)
      /\ args[r1] = args[r2]
      /\ response[r1][1].text = response[r2][1].text
      /\ response[r1][1].usage = "unformattable"
      /\ response[r2][1].usage = "counts"
      /\ outcome[r1].status = 200
      /\ outcome[r2] = outcome[r1]

(***************************************************************************)
(* C14.  A reply that is valid apart from the lengths of its lists is      *)
(* returned with status 200, its lists as they came, whatever the lengths  *)
(* of the five projection lists and of the goal section's                  *)
(* three_years_monthly, empty lists included.                              *)
(***************************************************************************)
OtherwiseValid(doc) ==
    /\ \A f \in Range(RequiredPlainFields) : doc[f] = "valid"
    /\ \A f \in Range(RequiredScoreFields) :
         doc[f].state = "valid" /\ InRange(doc[f].score)
    /\ doc.projections_data.state = "valid"
    /\ doc.goal_based_projections.state \in {"missing", "null", "valid"}
    /\ \/ doc.goal_feasibility_score.state \in {"missing", "null"}
       \/ /\ doc.goal_feasibility_score.state = "valid"
          /\ InRange(doc.goal_feasibility_score.score)

C14_AnyLengthsReturned ==
    \A r \in Requests :
      (/\ Answered(r)
       /\ response[r][1].text.kind = "object"
       /\ OtherwiseValid(response[r][1].text.doc[1]))
      => /\ outcome[r].status = 200
         /\ outcome[r].projection[1].projections_data
              = response[r][1].text.doc[1].projections_data
         /\ response[r][1].text.doc[1].goal_based_projections.state = "valid"
            => outcome[r].projection[1].goal_based_projections
                 = response[r][1].text.doc[1].goal_based_projections

(***************************************************************************)
(* C15.  With requests in flight together, in every order of their steps,  *)
(* what a request sends and what its caller gets is determined by its own  *)
(* files (their names and what reading them gave), its own goal parameters *)
(* and the reply to its own call.                                          *)
(***************************************************************************)
C15_OwnInputsDecide ==
    \A r \in Requests :
      /\ ~IsNone(sent[r])
         => /\ sent[r][1].contents = <<args[r].profit_loss_file.content,
                                       args[r].balance_sheet_file.content>>
            /\ \E now_year \in ClockYears :
                 sent[r][1].prompt = full_prompt(args[r].goal_target_revenue,
                                                 args[r].goal_timeframe_years,
                                                 now_year)
      /\ pc[r] \in {"idle", "reading_profit_loss", "reading_balance_sheet", "calling"}
         => outcome[r] = NoOutcome
      /\ (pc[r] = "done" /\ IsProjection(r))
         => outcome[r] = IF ReadRaised(r)
                         THEN InternalServerError(reads[r][Len(reads[r])].raised)
                         ELSE IF IsNone(response[r])
                         THEN FileTypeError(args[r].profit_loss_file,
                                            args[r].balance_sheet_file)
                         ELSE ResponseOutcome(args[r], response[r][1])

\* two requests are answered and not yet gone, the reply to each carried a
\* goal section: the one without a goal target got its error, the other its
\* projection
C15_Witness ==
    \E r1 \in Requests, r2 \in Requests :
      /\ pc[r1] = "done" /\ pc[r2] = "done"
      /\ Answered(r1) /\ Answered(r2)
      /\ response[r1][1].text = response[r2][1].text
      /\ IsNone(args[r1].goal_target_revenue)
      /\ ~IsNone(args[r2].goal_target_revenue)
      /\ outcome[r1].status = 500
      /\ outcome[r2].status = 200

====
